---- MODULE Spec2Model ----
(***************************************************************************)
(* Model of the two core primitives of mini-tq:                            *)
(*   - Subscribable (packages/core/src/subscribable.ts): the batched       *)
(*     notification primitive; specification Spec.                         *)
(*   - stableStringify / hashQueryKey (packages/core/src/hash.ts): the     *)
(*     canonical key serializer; specification SpecHash.                   *)
(***************************************************************************)
EXTENDS Integers, Sequences, FiniteSets, TLC

(***************************************************************************)
(* Bounds of the notification model.                                       *)
(***************************************************************************)
\* subscribe() calls explored (each creates one unsubscribe closure)
MaxSubs == 2
\* notify() calls explored
MaxNotify == 2

\* listener callbacks (function identities) handed to subscribe()
Listeners == {"A", "B"}
\* payloads handed to notify()
Values == {"v1", "v2"}
\* the exception listener l throws when it throws
ErrorOf(l) == <<"error", l>>
\* content of lastValue before the first notify (declared `lastValue!: T`)
Unset == "unset"

VARIABLES
    \* ---- Subscribable fields ----
    listeners,        \* Set<Listener<T>>, kept in insertion order
    pendingFlush,     \* a flush is already scheduled
    hasQueuedValue,   \* there is a value to flush
    lastValue,        \* the most recent payload to deliver
    \* ---- runtime: closures, microtask queue, the running flush callback ----
    closures,         \* closures returned by subscribe: [listener, unsubscribed]
    microtasks,       \* number of flush callbacks queued with queueMicrotask
    phase,            \* "idle" | "inListener" (the flush callback is inside fn(payload))
    payload,          \* const payload of the running flush callback
    snapshot,         \* const listeners = Array.from(this.listeners)
    idx,              \* position of the for-of loop in snapshot
    \* ---- hooks ----
    subHooks,         \* number of onSubscribe() calls
    unsubHooks,       \* number of onUnsubscribe() calls
    errors,           \* arguments of the onNotifyError(err) calls made by the
                      \* latest delivering flush, in order
    \* ---- history (observation only, never read by the operations) ----
    batch,            \* values notified since the last flush callback started
    hist,             \* for each delivering flush, the last value notified before it
    regAtNotify,      \* registry contents when the first value of the batch was notified
    regAtFlush,       \* registry contents when the latest delivering flush started
    calls,            \* <<listener, value>> invocations of the latest delivering flush
    observed,         \* per listener: values received since it was last registered
    since,            \* per listener: number of flushes started when it was registered
    notifyCount,      \* number of notify() calls so far
    thrown,           \* listeners that threw during the latest delivering flush
    excluded,         \* per listener: did it remove itself while being invoked
                      \* ("no" | "thisFlush" | "earlier"), until subscribed again
    \* ---- serializer model (SpecHash) ----
    heap,             \* the collections of the identifier under construction
    out               \* results of the stableStringify calls made on the heap

busVars == <<listeners, pendingFlush, hasQueuedValue, lastValue, closures, microtasks,
             phase, payload, snapshot, idx, subHooks, unsubHooks, errors>>
histVars == <<batch, hist, regAtNotify, regAtFlush, calls, observed, since, notifyCount, thrown,
              excluded>>
hashVars == <<heap, out>>
vars == <<busVars, histVars, hashVars>>

(***************************************************************************)
(* Sequence helpers.                                                       *)
(***************************************************************************)
Range(s) == {s[i] : i \in 1..Len(s)}

Last(s) == s[Len(s)]

RECURSIVE Without(_, _)
\* s with every occurrence of x removed, order kept
Without(s, x) ==
    IF s = <<>> THEN <<>>
    ELSE IF Head(s) = x THEN Without(Tail(s), x)
    ELSE <<Head(s)>> \o Without(Tail(s), x)

IndexOf(s, x) == CHOOSE i \in 1..Len(s) : s[i] = x

(***************************************************************************)
(* Set<Listener<T>> (subscribable.ts:13): a JS Set iterates in insertion   *)
(* order; add of a present element keeps its position.                     *)
(***************************************************************************)
SetAdd(s, x) == IF x \in Range(s) THEN s ELSE Append(s, x)

SetHas(s, x) == x \in Range(s)

SetDelete(s, x) == Without(s, x)

\* Array.from(this.listeners) (subscribable.ts:77)
ArrayFrom(s) == s

\* listenerCount (subscribable.ts:88-90)
listenerCount == Len(listeners)

(***************************************************************************)
(* Who is running: main (between microtasks) or a listener called by the   *)
(* flush callback.  subscribe, unsubscribe and notify are synchronous and  *)
(* may be called from either.                                              *)
(***************************************************************************)
Current == IF phase = "inListener" THEN snapshot[idx] ELSE "main"

\* number of delivering flushes started so far
FlushNo == Len(hist)

\* listener l is in the running flush's list and has not been called yet
StillDue(l) ==
    /\ phase = "inListener"
    /\ \E i \in (Len(calls) + 1)..Len(regAtFlush) : regAtFlush[i] = l

(***************************************************************************)
(* subscribe(listener) (subscribable.ts:24-35)                             *)
(***************************************************************************)
SubscribeCode(l) ==
    /\ listeners' = SetAdd(listeners, l)
    /\ subHooks' = subHooks + 1
    /\ closures' = Append(closures, [listener |-> l, unsubscribed |-> FALSE])
    /\ UNCHANGED <<pendingFlush, hasQueuedValue, lastValue, microtasks, phase, payload,
                   snapshot, idx, unsubHooks, errors>>

SubscribeHist(l) ==
    /\ IF SetHas(listeners, l)
       THEN UNCHANGED <<since, observed>>
       ELSE /\ since' = [since EXCEPT ![l] = IF StillDue(l) THEN FlushNo - 1 ELSE FlushNo]
            /\ observed' = [observed EXCEPT ![l] = <<>>]
    /\ excluded' = [excluded EXCEPT ![l] = "no"]
    /\ UNCHANGED <<batch, hist, regAtNotify, regAtFlush, calls, notifyCount, thrown>>

Subscribe(l) ==
    /\ Len(closures) < MaxSubs
    /\ SubscribeCode(l)
    /\ SubscribeHist(l)
    /\ UNCHANGED hashVars

(***************************************************************************)
(* The closure returned by subscribe (subscribable.ts:29-34), closure c.   *)
(***************************************************************************)
UnsubscribeNoGuard(c) ==
    LET l == closures[c].listener
        existed == SetHas(listeners, l)
    IN  /\ closures' = [closures EXCEPT ![c].unsubscribed = TRUE]
        /\ listeners' = SetDelete(listeners, l)
        /\ unsubHooks' = IF existed THEN unsubHooks + 1 ELSE unsubHooks
        /\ UNCHANGED <<pendingFlush, hasQueuedValue, lastValue, microtasks, phase, payload,
                       snapshot, idx, subHooks, errors>>

UnsubscribeCode(c) ==
    LET l == closures[c].listener
        existed == SetHas(listeners, l)
    IN  /\ IF closures[c].unsubscribed
           THEN \* if (unsubscribed) return;
                UNCHANGED <<listeners, closures, unsubHooks>>
           ELSE /\ closures' = [closures EXCEPT ![c].unsubscribed = TRUE]
                /\ listeners' = SetDelete(listeners, l)
                /\ unsubHooks' = IF existed THEN unsubHooks + 1 ELSE unsubHooks
        /\ UNCHANGED <<pendingFlush, hasQueuedValue, lastValue, microtasks, phase, payload,
                       snapshot, idx, subHooks, errors>>

UnsubscribeHist(c) ==
    LET l == closures[c].listener
        removed == SetHas(listeners, l) /\ ~SetHas(listeners', l)
    IN  /\ since' = IF removed THEN [since EXCEPT ![l] = -1] ELSE since
        /\ excluded' = IF removed /\ Current = l
                       THEN [excluded EXCEPT ![l] = "thisFlush"]
                       ELSE excluded
        /\ UNCHANGED <<batch, hist, regAtNotify, regAtFlush, calls, observed, notifyCount,
                       thrown>>

Unsubscribe(c) ==
    /\ c \in 1..Len(closures)
    /\ UnsubscribeCode(c)
    /\ UnsubscribeHist(c)
    /\ UNCHANGED hashVars

(***************************************************************************)
(* notify(value) (subscribable.ts:63-69, 86): record the value, and queue  *)
(* the flush callback unless one is already scheduled.                     *)
(***************************************************************************)
NotifyKeepsFirst(v) ==
    /\ lastValue' = IF hasQueuedValue THEN lastValue ELSE v
    /\ hasQueuedValue' = TRUE
    /\ IF pendingFlush
       THEN UNCHANGED <<pendingFlush, microtasks>>
       ELSE /\ pendingFlush' = TRUE
            /\ microtasks' = microtasks + 1
    /\ UNCHANGED <<listeners, closures, phase, payload, snapshot, idx, subHooks,
                   unsubHooks, errors>>

NotifyAlwaysQueues(v) ==
    /\ lastValue' = v
    /\ hasQueuedValue' = TRUE
    /\ pendingFlush' = TRUE
    /\ microtasks' = microtasks + 1
    /\ UNCHANGED <<listeners, closures, phase, payload, snapshot, idx, subHooks,
                   unsubHooks, errors>>

NotifyMergesIntoFlush(v) ==
    /\ lastValue' = v
    /\ hasQueuedValue' = TRUE
    /\ IF pendingFlush
       THEN UNCHANGED <<pendingFlush, microtasks>>
       ELSE /\ pendingFlush' = TRUE
            /\ microtasks' = microtasks + 1
    /\ payload' = IF phase = "inListener" THEN v ELSE payload
    /\ UNCHANGED <<listeners, closures, phase, snapshot, idx, subHooks,
                   unsubHooks, errors>>

NotifyCode(v) ==
    /\ lastValue' = v
    /\ hasQueuedValue' = TRUE
    /\ IF pendingFlush
       THEN \* if (this.pendingFlush) return;
            UNCHANGED <<pendingFlush, microtasks>>
       ELSE /\ pendingFlush' = TRUE
            /\ microtasks' = microtasks + 1
    /\ UNCHANGED <<listeners, closures, phase, payload, snapshot, idx, subHooks,
                   unsubHooks, errors>>

NotifyHist(v) ==
    /\ batch' = Append(batch, v)
    /\ regAtNotify' = IF batch = <<>> THEN listeners ELSE regAtNotify
    /\ notifyCount' = notifyCount + 1
    /\ UNCHANGED <<hist, regAtFlush, calls, observed, since, thrown, excluded>>

Notify(v) ==
    /\ notifyCount < MaxNotify
    /\ NotifyCode(v)
    /\ NotifyHist(v)
    /\ UNCHANGED hashVars

(***************************************************************************)
(* The flush callback (subscribable.ts:70-85).  It runs as a microtask:    *)
(* only when no other code of the bus is on the stack (phase = "idle").    *)
(* FlushStart covers lines 71-77 and the call of the first listener; the   *)
(* callback then stands inside fn(payload) until the listener returns or   *)
(* throws, which moves the loop to the next listener or ends the callback. *)
(***************************************************************************)
FlushSnapshotAtSchedule ==
    /\ microtasks' = microtasks - 1
    /\ pendingFlush' = FALSE
    /\ IF ~hasQueuedValue
       THEN UNCHANGED <<hasQueuedValue, phase, payload, snapshot, idx>>
       ELSE /\ payload' = lastValue
            /\ hasQueuedValue' = FALSE
            /\ snapshot' = ArrayFrom(regAtNotify)
            /\ idx' = 1
            /\ phase' = IF snapshot' = <<>> THEN "idle" ELSE "inListener"
    /\ UNCHANGED <<listeners, lastValue, closures, subHooks, unsubHooks>>

FlushKeepsPending ==
    /\ microtasks' = microtasks - 1
    /\ UNCHANGED pendingFlush
    /\ IF ~hasQueuedValue
       THEN UNCHANGED <<hasQueuedValue, phase, payload, snapshot, idx>>
       ELSE /\ payload' = lastValue
            /\ hasQueuedValue' = FALSE
            /\ snapshot' = ArrayFrom(listeners)
            /\ idx' = 1
            /\ phase' = IF snapshot' = <<>> THEN "idle" ELSE "inListener"
    /\ UNCHANGED <<listeners, lastValue, closures, subHooks, unsubHooks>>

FlushLeavesValue ==
    /\ microtasks' = microtasks - 1
    /\ pendingFlush' = FALSE
    /\ IF ~hasQueuedValue
       THEN UNCHANGED <<hasQueuedValue, phase, payload, snapshot, idx>>
       ELSE /\ payload' = lastValue
            /\ UNCHANGED hasQueuedValue
            /\ snapshot' = ArrayFrom(listeners)
            /\ idx' = 1
            /\ phase' = IF snapshot' = <<>> THEN "idle" ELSE "inListener"
    /\ UNCHANGED <<listeners, lastValue, closures, subHooks, unsubHooks>>

FlushCode ==
    /\ microtasks' = microtasks - 1
    /\ pendingFlush' = FALSE
    /\ IF ~hasQueuedValue
       THEN \* if (!this.hasQueuedValue) return;
            UNCHANGED <<hasQueuedValue, phase, payload, snapshot, idx>>
       ELSE /\ payload' = lastValue
            /\ hasQueuedValue' = FALSE
            /\ snapshot' = ArrayFrom(listeners)
            /\ idx' = 1
            /\ phase' = IF snapshot' = <<>> THEN "idle" ELSE "inListener"
    /\ UNCHANGED <<listeners, lastValue, closures, subHooks, unsubHooks>>

\* the value the flush that starts now owes to the listeners
Due == IF batch = <<>> THEN "none" ELSE Last(batch)

FlushHist ==
    /\ IF ~hasQueuedValue
       THEN UNCHANGED <<batch, hist, regAtFlush, calls, observed, thrown, excluded, errors>>
       ELSE /\ hist' = Append(hist, Due)
            /\ batch' = <<>>
            /\ regAtFlush' = listeners
            /\ thrown' = <<>>
            /\ errors' = <<>>
            /\ excluded' = [l \in Listeners |->
                              IF excluded[l] = "thisFlush" THEN "earlier" ELSE excluded[l]]
            /\ IF snapshot' = <<>>
               THEN calls' = <<>> /\ UNCHANGED observed
               ELSE /\ calls' = <<<<snapshot'[1], payload'>>>>
                    /\ observed' = [observed EXCEPT ![snapshot'[1]] = Append(@, payload')]
    /\ UNCHANGED <<regAtNotify, since, notifyCount>>

FlushStart ==
    /\ phase = "idle"
    /\ microtasks > 0
    /\ FlushCode
    /\ FlushHist
    /\ UNCHANGED hashVars

\* the for-of loop (line 78) moves on to its next element, or ends
LoopNextLive ==
    IF idx < Len(listeners)
    THEN /\ idx' = idx + 1
         /\ snapshot' = [i \in 1..(idx + 1) |->
                           IF i <= idx /\ i <= Len(snapshot) THEN snapshot[i]
                           ELSE listeners[idx + 1]]
         /\ UNCHANGED phase
    ELSE /\ phase' = "idle"
         /\ UNCHANGED <<idx, snapshot>>

LoopNext ==
    IF idx < Len(snapshot)
    THEN /\ idx' = idx + 1
         /\ UNCHANGED <<phase, snapshot>>
    ELSE /\ phase' = "idle"
         /\ UNCHANGED <<idx, snapshot>>

\* history kept when the loop moves on: the call of the next listener, if any
LoopHist ==
    IF phase' = "inListener"
    THEN /\ calls' = Append(calls, <<snapshot'[idx'], payload>>)
         /\ observed' = [observed EXCEPT ![snapshot'[idx']] = Append(@, payload)]
    ELSE UNCHANGED <<calls, observed>>

\* fn(payload) returns normally
ReturnCode ==
    /\ LoopNext
    /\ UNCHANGED <<listeners, pendingFlush, hasQueuedValue, lastValue, closures,
                   microtasks, payload, subHooks, unsubHooks>>

ListenerReturn ==
    /\ phase = "inListener"
    /\ ReturnCode
    /\ LoopHist
    /\ UNCHANGED <<errors, batch, hist, regAtNotify, regAtFlush, since, notifyCount,
                   thrown, excluded>>
    /\ UNCHANGED hashVars

\* fn(payload) throws: catch (err) { this.onNotifyError(err); } (lines 79-83)
ThrowEscapes ==
    /\ phase' = "idle"
    /\ UNCHANGED <<errors, idx, snapshot>>
    /\ UNCHANGED <<listeners, pendingFlush, hasQueuedValue, lastValue, closures,
                   microtasks, payload, subHooks, unsubHooks>>

ThrowCode ==
    /\ errors' = Append(errors, ErrorOf(Current))
    /\ LoopNext
    /\ UNCHANGED <<listeners, pendingFlush, hasQueuedValue, lastValue, closures,
                   microtasks, payload, subHooks, unsubHooks>>

ListenerThrow ==
    /\ phase = "inListener"
    /\ ThrowCode
    /\ LoopHist
    /\ thrown' = Append(thrown, Current)
    /\ UNCHANGED <<batch, hist, regAtNotify, regAtFlush, since, notifyCount, excluded>>
    /\ UNCHANGED hashVars

(***************************************************************************)
(* State after `new Subscribable()`.                                       *)
(***************************************************************************)
BusInit ==
    /\ listeners = <<>>
    /\ pendingFlush = FALSE
    /\ hasQueuedValue = FALSE
    /\ lastValue = Unset
    /\ closures = <<>>
    /\ microtasks = 0
    /\ phase = "idle"
    /\ payload = Unset
    /\ snapshot = <<>>
    /\ idx = 1
    /\ subHooks = 0
    /\ unsubHooks = 0
    /\ errors = <<>>
    /\ batch = <<>>
    /\ hist = <<>>
    /\ regAtNotify = <<>>
    /\ regAtFlush = <<>>
    /\ calls = <<>>
    /\ observed = [l \in Listeners |-> <<>>]
    /\ since = [l \in Listeners |-> -1]
    /\ notifyCount = 0
    /\ thrown = <<>>
    /\ excluded = [l \in Listeners |-> "no"]

\* the serializer is not used in the notification model
HashIdle ==
    /\ heap = <<>>
    /\ out = <<>>

Init ==
    /\ BusInit
    /\ HashIdle

Next ==
    \/ \E l \in Listeners : Subscribe(l)
    \/ \E c \in 1..MaxSubs : Unsubscribe(c)
    \/ \E v \in Values : Notify(v)
    \/ FlushStart
    \/ ListenerReturn
    \/ ListenerThrow

Spec == Init /\ [][Next]_vars

(***************************************************************************)
(* The scheduling the runtime guarantees: a callback queued with           *)
(* queueMicrotask (subscribable.ts:70) runs once the running code has      *)
(* returned, and a listener called by the loop (subscribable.ts:78-84)     *)
(* returns or throws.                                                      *)
(***************************************************************************)
Scheduling ==
    /\ WF_vars(FlushStart)
    /\ WF_vars(ListenerReturn \/ ListenerThrow)

SpecLive == Init /\ [][Next]_vars /\ Scheduling

(***************************************************************************)
(* The serializer: stableStringify and hashQueryKey (hash.ts).             *)
(*                                                                         *)
(* Strings are sequences of characters.  An identifier is built from       *)
(* atoms (primitives, with an identity: two symbols of the same            *)
(* description are two atoms) and collections, which live in `heap` under  *)
(* a reference so that a collection can hold itself or be held twice.      *)
(***************************************************************************)
\* entries a collection is given in the explored identifiers
MaxItems == 2

\* references of the collections
Refs == {"p", "q"}

Kinds == {"array", "map", "set", "object"}

\* the primitives: the numbers 1 and 2, Symbol('a') twice, Symbol('a,sym:a')
Atom ==
    ( "n1"  :> [type |-> "number", text |-> <<"1">>] @@
      "n2"  :> [type |-> "number", text |-> <<"2">>] @@
      "sa1" :> [type |-> "symbol", text |-> <<"a">>] @@
      "sa2" :> [type |-> "symbol", text |-> <<"a">>] @@
      "sj"  :> [type |-> "symbol", text |-> <<"a", ",", "s", "y", "m", ":", "a">>] )

Atoms == DOMAIN Atom

\* the string property keys "a" and "b"
StringKey == ( "ka" :> <<"a">> @@ "kb" :> <<"b">> )

NoResult == [done |-> FALSE]

\* the characters of the canonical forms, in increasing UTF-16 code unit order:
\* JS compares strings (a < b, and sort() without comparator) by code units
CodeUnitOrder ==
    << "\"", ",", "1", "2", ":", "=", ">", "[", "]", "a", "b", "e", "k", "m", "n",
       "p", "q", "r", "s", "t", "u", "y", "{", "}" >>

CodeUnit(c) == CHOOSE i \in 1..Len(CodeUnitOrder) : CodeUnitOrder[i] = c

\* a < b on JS strings
StrLess(a, b) ==
    \E i \in 1..Len(b) :
      /\ \A j \in 1..(i - 1) : j <= Len(a) /\ a[j] = b[j]
      /\ (i > Len(a) \/ CodeUnit(a[i]) < CodeUnit(b[i]))

RECURSIVE Join(_, _)
\* Array.prototype.join
Join(strs, sep) ==
    IF strs = <<>> THEN <<>>
    ELSE IF Len(strs) = 1 THEN strs[1]
    ELSE strs[1] \o sep \o Join(Tail(strs), sep)

\* Array.prototype.sort, which is stable, of s by the strings keys[i] compared
\* with <: an element comes after the lesser ones and the earlier equal ones
SortBy(s, keys) ==
    LET rank(i) == Cardinality({j \in 1..Len(s) : StrLess(keys[j], keys[i])})
                     + Cardinality({j \in 1..(i - 1) : keys[j] = keys[i]}) + 1
    IN  [k \in 1..Len(s) |-> s[CHOOSE i \in 1..Len(s) : rank(i) = k]]

\* JSON.stringify of a string without characters to escape
JsonStringify(str) == <<"\"">> \o str \o <<"\"">>

(***************************************************************************)
(* ownKeysSorted (hash.ts:24-33) of the object at reference r: its string  *)
(* keys sorted, then its symbol keys sorted by description.                *)
(***************************************************************************)
\* Object.keys / Object.getOwnPropertySymbols: own keys in creation order
OwnKeys(r) == [i \in 1..Len(heap[r].items) |-> heap[r].items[i][1]]

IsStringKey(k) == k \in DOMAIN StringKey

IsSymbolKey(k) == k \in Atoms

ownKeysSorted(r) ==
    LET stringKeys == SelectSeq(OwnKeys(r), IsStringKey)
        symbolKeys == SelectSeq(OwnKeys(r), IsSymbolKey)
    IN  \* Object.keys(obj).sort()
        SortBy(stringKeys, [i \in 1..Len(stringKeys) |-> StringKey[stringKeys[i]]])
        \* sort((a, b) => da < db ? -1 : da > db ? 1 : 0) on the descriptions
          \o SortBy(symbolKeys, [i \in 1..Len(symbolKeys) |-> Atom[symbolKeys[i]].text])

\* obj[k]
PropertyValue(r, k) ==
    LET i == CHOOSE i \in 1..Len(heap[r].items) : heap[r].items[i][1] = k
    IN  heap[r].items[i][2]

\* typeof k === 'string' ? `key:${JSON.stringify(k)}` : `keysym:${k.description ?? ''}`
keyLabel(k) ==
    IF IsStringKey(k) THEN <<"k", "e", "y", ":">> \o JsonStringify(StringKey[k])
    ELSE <<"k", "e", "y", "s", "y", "m", ":">> \o Atom[k].text

(***************************************************************************)
(* stableStringify(value, seen) (hash.ts:49-140).  `seen` is one mutable   *)
(* set shared by the whole recursion, so the model threads it: a call      *)
(* returns the string (or the TypeError thrown) and the set as it left it. *)
(***************************************************************************)
Returns(str, seen) == [err |-> FALSE, str |-> str, kind |-> "", at |-> "", seen |-> seen]

\* throw new TypeError('stableStringify: circular <kind> reference'); `at` is the
\* collection on which it was raised
Throws(kind, at, seen) == [err |-> TRUE, str |-> <<>>, kind |-> kind, at |-> at, seen |-> seen]

\* seen.add(value)
SeenAdd(seen, v) == seen \cup {v}

\* seen.delete(value)
SeenDeleteSkipped(seen, v) == seen

SeenDelete(seen, v) == seen \ {v}

\* [k1, v1, k2, v2, ...] of the entries of a Map
RECURSIVE Flatten(_)
Flatten(entries) ==
    IF entries = <<>> THEN <<>>
    ELSE <<Head(entries)[1], Head(entries)[2]>> \o Flatten(Tail(entries))

RECURSIVE stableStringify(_, _)
RECURSIVE StringifyEach(_, _)

\* the values stringified one after the other, left to right, with the shared
\* set; stops at the first throw
StringifyEach(values, seen) ==
    IF values = <<>>
    THEN [err |-> FALSE, strs |-> <<>>, kind |-> "", at |-> "", seen |-> seen]
    ELSE LET h == stableStringify(Head(values), seen)
         IN  IF h.err
             THEN [err |-> TRUE, strs |-> <<>>, kind |-> h.kind, at |-> h.at, seen |-> h.seen]
             ELSE LET t == StringifyEach(Tail(values), h.seen)
                  IN  IF t.err THEN t
                      ELSE [t EXCEPT !.strs = <<h.str>> \o t.strs]

stableStringify(value, seen) ==
    IF value \in Atoms
    THEN \* primitives (hash.ts:54-60)
         IF Atom[value].type = "number"
         THEN Returns(<<"n", "u", "m", ":">> \o Atom[value].text, seen)
         ELSE Returns(<<"s", "y", "m", ":">> \o Atom[value].text, seen)
    ELSE LET node == heap[value]
             entered == SeenAdd(seen, value)
         IN  CASE node.kind = "array" ->
                    \* hash.ts:86-92
                    LET inner == StringifyEach(node.items, entered)
                    IN  IF value \in seen THEN Throws("array", value, seen)
                        ELSE IF inner.err THEN Throws(inner.kind, inner.at, inner.seen)
                        ELSE Returns(<<"[">> \o Join(inner.strs, <<",">>) \o <<"]">>,
                                     SeenDelete(inner.seen, value))
               [] node.kind = "map" ->
                    \* hash.ts:95-106
                    LET inner == StringifyEach(Flatten(node.items), entered)
                        pairs == [i \in 1..Len(node.items) |->
                                    <<inner.strs[2 * i - 1], inner.strs[2 * i]>>]
                        \* sort((a, b) => (a[0] < b[0] ? -1 : a[0] > b[0] ? 1 : 0))
                        sorted == SortBy(pairs, [i \in 1..Len(pairs) |-> pairs[i][1]])
                        entries == [i \in 1..Len(sorted) |->
                                      sorted[i][1] \o <<":">> \o sorted[i][2]]
                    IN  IF value \in seen THEN Throws("Map", value, seen)
                        ELSE IF inner.err THEN Throws(inner.kind, inner.at, inner.seen)
                        ELSE Returns(<<"m", "a", "p", ":", "{">>
                                       \o Join(entries, <<",">>) \o <<"}">>,
                                     SeenDelete(inner.seen, value))
               [] node.kind = "set" ->
                    \* hash.ts:109-118
                    LET inner == StringifyEach(node.items, entered)
                    IN  IF value \in seen THEN Throws("Set", value, seen)
                        ELSE IF inner.err THEN Throws(inner.kind, inner.at, inner.seen)
                        ELSE Returns(<<"s", "e", "t", ":", "[">>
                                       \o Join(SortBy(inner.strs, inner.strs), <<",">>)
                                       \o <<"]">>,
                                     SeenDelete(inner.seen, value))
               [] node.kind = "object" ->
                    \* hash.ts:121-135
                    LET keys == ownKeysSorted(value)
                        inner == StringifyEach(
                                   [i \in 1..Len(keys) |-> PropertyValue(value, keys[i])],
                                   entered)
                        pairs == [i \in 1..Len(keys) |->
                                    keyLabel(keys[i]) \o <<"=", ">">> \o inner.strs[i]]
                    IN  IF value \in seen THEN Throws("object", value, seen)
                        ELSE IF inner.err THEN Throws(inner.kind, inner.at, inner.seen)
                        ELSE Returns(<<"{">> \o Join(pairs, <<",">>) \o <<"}">>,
                                     SeenDelete(inner.seen, value))

\* hashQueryKey(key) (hash.ts:157-159): `qk:${stableStringify(key)}`, with a
\* fresh `seen` (the default parameter); a TypeError passes through
hashQueryKey(key) ==
    LET s == stableStringify(key, {})
    IN  IF s.err THEN [done |-> TRUE, err |-> TRUE, str |-> <<>>, kind |-> s.kind, at |-> s.at]
        ELSE [done |-> TRUE, err |-> FALSE, str |-> <<"q", "k", ":">> \o s.str,
              kind |-> "", at |-> ""]

(***************************************************************************)
(* The caller builds the identifier, then hashes it.  The building steps   *)
(* are the JS operations the tests use (hash.test.ts:46-55, 63-69).  A     *)
(* change of the identifier drops the hashes computed before it.           *)
(***************************************************************************)
Forget == out' = [r \in Refs |-> NoResult]

\* arr.push(x)
Push(r, x) ==
    /\ heap[r].kind = "array"
    /\ Len(heap[r].items) < MaxItems
    /\ heap' = [heap EXCEPT ![r].items = Append(@, x)]
    /\ Forget
    /\ UNCHANGED <<busVars, histVars>>

\* set.add(x)
AddToSet(r, x) ==
    /\ heap[r].kind = "set"
    /\ Len(heap[r].items) < MaxItems
    /\ x \notin Range(heap[r].items)
    /\ heap' = [heap EXCEPT ![r].items = Append(@, x)]
    /\ Forget
    /\ UNCHANGED <<busVars, histVars>>

\* map.set(k, v) with a new key
MapSet(r, k, v) ==
    /\ heap[r].kind = "map"
    /\ Len(heap[r].items) < MaxItems
    /\ \A i \in 1..Len(heap[r].items) : heap[r].items[i][1] # k
    /\ heap' = [heap EXCEPT ![r].items = Append(@, <<k, v>>)]
    /\ Forget
    /\ UNCHANGED <<busVars, histVars>>

\* obj[k] = v with a new key
Assign(r, k, v) ==
    /\ heap[r].kind = "object"
    /\ Len(heap[r].items) < MaxItems
    /\ \A i \in 1..Len(heap[r].items) : heap[r].items[i][1] # k
    /\ heap' = [heap EXCEPT ![r].items = Append(@, <<k, v>>)]
    /\ Forget
    /\ UNCHANGED <<busVars, histVars>>

\* hashQueryKey(r), the result kept (a thrown TypeError included)
Hash(r) ==
    /\ ~out[r].done
    /\ out' = [out EXCEPT ![r] = hashQueryKey(r)]
    /\ UNCHANGED heap
    /\ UNCHANGED <<busVars, histVars>>

\* two empty collections of any kinds, nothing hashed
HashInit ==
    /\ BusInit
    /\ heap \in [Refs -> {[kind |-> k, items |-> <<>>] : k \in Kinds}]
    /\ out = [r \in Refs |-> NoResult]

(***************************************************************************)
(* SpecHash: identifiers made of primitives, for the claims about the      *)
(* order of keys, elements and entries.                                    *)
(***************************************************************************)
Elements == {"n1", "sa1", "sj"}

MapKeys == {"sa1", "sa2"}

PropertyKeys == {"ka", "kb", "sa1", "sa2"}

Payloads == {"n1", "n2"}

NextHash ==
    \/ \E r \in Refs, x \in Elements : Push(r, x)
    \/ \E r \in Refs, x \in Elements : AddToSet(r, x)
    \/ \E r \in Refs, k \in MapKeys, v \in Payloads : MapSet(r, k, v)
    \/ \E r \in Refs, k \in PropertyKeys, v \in Payloads : Assign(r, k, v)
    \/ \E r \in Refs : Hash(r)

SpecHash == HashInit /\ [][NextHash]_vars

(***************************************************************************)
(* SpecCycle: identifiers whose collections hold each other, for the claim *)
(* about circular references.                                              *)
(***************************************************************************)
Members == Refs \cup {"n1"}

NextCycle ==
    \/ \E r \in Refs, x \in Members : Push(r, x)
    \/ \E r \in Refs, x \in Members : AddToSet(r, x)
    \/ \E r \in Refs, k \in Members, v \in Members : MapSet(r, k, v)
    \/ \E r \in Refs, k \in DOMAIN StringKey, v \in Members : Assign(r, k, v)
    \/ \E r \in Refs : Hash(r)

SpecCycle == HashInit /\ [][NextCycle]_vars

(***************************************************************************)
(* Observations shared by the claims about the notification primitive.     *)
(***************************************************************************)
\* the listeners called so far by the latest delivering flush, in call order
CalledListeners == [i \in 1..Len(calls) |-> calls[i][1]]

\* how many times the latest delivering flush has called listener l
TimesCalled(l) == Cardinality({i \in 1..Len(calls) : calls[i][1] = l})

\* the latest delivering flush has ended
FlushEnded == phase = "idle" /\ hist # <<>>

IsPrefix(s, t) == Len(s) <= Len(t) /\ \A i \in 1..Len(s) : s[i] = t[i]

\* a step that is a call of notify
NotifyStep == \E v \in Values : Notify(v)

\* the step is the first invocation of closure c
FirstInvocation(c) == ~closures[c].unsubscribed /\ closures'[c].unsubscribed

\* the step neither creates a closure nor is the first invocation of one
NoFirstInvocation ==
    /\ Len(closures') = Len(closures)
    /\ \A c \in 1..Len(closures) : closures'[c].unsubscribed = closures[c].unsubscribed

(***************************************************************************)
(* C1: the notify calls issued before a flush starts yield one delivery:   *)
(* every listener registered when the flush starts is called exactly once  *)
(* by that flush (at most once while it runs), every call carries the      *)
(* value of the last of those notify calls, and a notify call itself       *)
(* invokes no listener.                                                    *)
(***************************************************************************)
C1_State ==
    /\ \A i \in 1..Len(calls) : calls[i][2] = Last(hist)
    /\ \A l \in Listeners : TimesCalled(l) <= 1
    /\ FlushEnded => \A l \in Range(regAtFlush) : TimesCalled(l) = 1

C1_Coalescing ==
    /\ []C1_State
    /\ [][NotifyStep => (calls' = calls /\ observed' = observed /\ phase' = phase)]_vars

\* two values were notified before one flush, which delivered the second to
\* both registered listeners
C1_Witness ==
    /\ FlushEnded
    /\ notifyCount = 2
    /\ hist = <<"v2">>
    /\ calls = <<<<"A", "v2">>, <<"B", "v2">>>>

(***************************************************************************)
(* C2: a listener registered without interruption has received exactly the *)
(* values that were the latest at the start of each flush since its        *)
(* registration, in flush order (the running flush included once it has    *)
(* been called): overwritten values never, no value twice.  Every value    *)
(* notified after the last flush is buffered with a flush queued for it.   *)
(***************************************************************************)
C2_InOrder ==
    /\ \A l \in Listeners :
         since[l] >= 0 =>
           observed[l] = SubSeq(hist, since[l] + 1,
                                FlushNo - (IF StillDue(l) THEN 1 ELSE 0))
    /\ batch # <<>> => (hasQueuedValue /\ lastValue = Last(batch) /\ microtasks > 0)

\* a listener saw v2 then v1 from two flushes
C2_Witness ==
    /\ FlushEnded
    /\ hist = <<"v2", "v1">>
    /\ since["A"] = 0
    /\ observed["A"] = <<"v2", "v1">>

(***************************************************************************)
(* C3: the listeners a flush calls are the registry's contents, in         *)
(* insertion order, at the moment the flush starts: while it runs the      *)
(* calls made are a prefix of that list, when it ends they are that list,  *)
(* whatever the registry was at notify time or became during delivery.     *)
(***************************************************************************)
C3_SnapshotAtFlush ==
    /\ IsPrefix(CalledListeners, regAtFlush)
    /\ FlushEnded => CalledListeners = regAtFlush

\* B subscribed after notify and was called; the registry changed during delivery
C3_Witness ==
    /\ FlushEnded
    /\ batch = <<>>
    /\ regAtNotify = <<"A">>
    /\ regAtFlush = <<"A", "B">>
    /\ CalledListeners = <<"A", "B">>
    /\ listeners = <<"B">>

(***************************************************************************)
(* C4: when a listener throws during a flush, onNotifyError is called      *)
(* once for that throw with the thrown error, and the listener after it in *)
(* the flush's list is called next with the same payload: the flush goes   *)
(* on to the end of its list.                                              *)
(***************************************************************************)
C4_ThrowIsolated ==
    /\ errors = [i \in 1..Len(thrown) |-> ErrorOf(thrown[i])]
    /\ \A i \in 1..Len(thrown) :
         LET p == IndexOf(regAtFlush, thrown[i])
         IN  /\ thrown[i] \in Range(regAtFlush)
             /\ p < Len(regAtFlush) =>
                  /\ Len(calls) > p
                  /\ calls[p + 1] = <<regAtFlush[p + 1], Last(hist)>>
             /\ (p = Len(regAtFlush)) => phase = "idle"

\* A threw, B was still called, one error was reported
C4_Witness ==
    /\ FlushEnded
    /\ thrown = <<"A">>
    /\ errors = <<ErrorOf("A")>>
    /\ calls = <<<<"A", "v1">>, <<"B", "v1">>>>

(***************************************************************************)
(* C5: a listener that removes itself, through a closure of its own not    *)
(* invoked before, while it is being called: the listeners after it in the *)
(* flush's list are still called in that flush, and it is out of the       *)
(* registry and receives nothing more until it is subscribed again.        *)
(***************************************************************************)
C5_State ==
    \A l \in Listeners :
      /\ excluded[l] # "no" => ~SetHas(listeners, l)
      /\ excluded[l] = "thisFlush" =>
           LET p == IndexOf(regAtFlush, l)
           IN  /\ l \in Range(regAtFlush)
               /\ phase = "idle" => CalledListeners = regAtFlush
               /\ (phase = "inListener" /\ Current # l) => Len(calls) > p

C5_SelfUnsubscribe ==
    /\ []C5_State
    /\ [][\A l \in Listeners :
            (excluded[l] # "no" /\ excluded'[l] # "no") => observed'[l] = observed[l]]_vars

\* A removed itself during the first flush; B got both flushes, A only the first
C5_Witness ==
    /\ FlushEnded
    /\ excluded["A"] = "earlier"
    /\ hist = <<"v1", "v2">>
    /\ observed["A"] = <<"v1">>
    /\ observed["B"] = <<"v1", "v2">>
    /\ calls = <<<<"B", "v2">>>>

(***************************************************************************)
(* C6 as stated: the first invocation of a closure removes its listener    *)
(* from the registry if present and fires onUnsubscribe.                   *)
(***************************************************************************)
C6_FirstCallFiresHook ==
    [][\A c \in 1..Len(closures) :
         FirstInvocation(c) =>
           /\ listeners' = Without(listeners, closures[c].listener)
           /\ unsubHooks' = unsubHooks + 1]_vars

(***************************************************************************)
(* C6 amended: the first invocation of a closure removes its listener from *)
(* the registry if it is still present, and fires onUnsubscribe exactly    *)
(* when it was still present; a step that neither creates a closure nor is *)
(* the first invocation of one (a later invocation of a closure among      *)
(* them) leaves the registry, listenerCount and the hook counts unchanged. *)
(***************************************************************************)
C6_Idempotent ==
    [][/\ \A c \in 1..Len(closures) :
            FirstInvocation(c) =>
              /\ listeners' = Without(listeners, closures[c].listener)
              /\ unsubHooks' = unsubHooks +
                   (IF SetHas(listeners, closures[c].listener) THEN 1 ELSE 0)
              /\ subHooks' = subHooks
       /\ NoFirstInvocation =>
            /\ listeners' = listeners
            /\ unsubHooks' = unsubHooks
            /\ subHooks' = subHooks]_vars

\* the same listener was subscribed twice; both closures have been invoked, the
\* second found the listener already removed and fired no hook
C6_Witness ==
    /\ Len(closures) = 2
    /\ closures[1].listener = closures[2].listener
    /\ closures[1].unsubscribed /\ closures[2].unsubscribed
    /\ subHooks = 2
    /\ unsubHooks = 1
    /\ listenerCount = 0

(***************************************************************************)
(* Observations shared by the claims about the serializer.                 *)
(***************************************************************************)
KindOf(r) == heap[r].kind

Hashed(r) == out[r].done

\* the two collections are of kind k, hashed without error
BothHashed(k, r1, r2) ==
    /\ KindOf(r1) = k /\ KindOf(r2) = k
    /\ Hashed(r1) /\ Hashed(r2)
    /\ ~out[r1].err /\ ~out[r2].err

\* the same entries (elements, key/value pairs), whatever the insertion order
SameEntries(r1, r2) == Range(heap[r1].items) = Range(heap[r2].items)

Occurrences(s, x) == Cardinality({i \in 1..Len(s) : s[i] = x})

IsPermutation(s, t) ==
    /\ Len(s) = Len(t)
    /\ \A x \in Range(s) \cup Range(t) : Occurrences(s, x) = Occurrences(t, x)

\* equal as data: the same reference, or primitives of the same type and content
SameData(x, y) == x = y \/ (x \in Atoms /\ y \in Atoms /\ Atom[x] = Atom[y])

\* the collections the collection at r holds directly
Children(r) ==
    LET items == heap[r].items
    IN  IF KindOf(r) \in {"array", "set"} THEN Range(items) \cap Refs
        ELSE IF KindOf(r) = "map"
        THEN {items[i][j] : i \in 1..Len(items), j \in {1, 2}} \cap Refs
        ELSE {items[i][2] : i \in 1..Len(items)} \cap Refs

RECURSIVE Closure(_)
\* the collections reachable from those of S, S included
Closure(S) ==
    LET next == S \cup UNION {Children(r) : r \in S}
    IN  IF next = S THEN S ELSE Closure(next)

\* the collection at r holds itself, directly or not
OnCycle(r) == r \in Closure(Children(r))

\* serializing from r reaches a collection that holds itself
ReachesCycle(r) == \E n \in Closure({r}) : OnCycle(n)

\* the word of the error message for each kind of collection
MessageWord == ( "array" :> "array" @@ "map" :> "Map" @@ "set" :> "Set" @@ "object" :> "object" )

(***************************************************************************)
(* C7: two plain objects with the same keys and values, created in         *)
(* different key orders, serialize (and hash) to the same string.          *)
(***************************************************************************)
C7_KeyOrderIrrelevant ==
    \A r1, r2 \in Refs :
      (BothHashed("object", r1, r2) /\ SameEntries(r1, r2)) => out[r1].str = out[r2].str

(***************************************************************************)
(* C8: two arrays holding the same elements in a different order (at some  *)
(* position the two elements differ as data) serialize to different        *)
(* strings.                                                                *)
(***************************************************************************)
C8_ArrayOrderMatters ==
    \A r1, r2 \in Refs :
      ( /\ BothHashed("array", r1, r2)
        /\ IsPermutation(heap[r1].items, heap[r2].items)
        /\ \E i \in 1..Len(heap[r1].items) :
             ~SameData(heap[r1].items[i], heap[r2].items[i]) )
      => out[r1].str # out[r2].str

(***************************************************************************)
(* C9: two Maps with the same entries, or two Sets with the same elements, *)
(* filled in different orders serialize to the same string, also when      *)
(* several keys have the same serialized form.                             *)
(***************************************************************************)
C9_InsertionOrderIrrelevant ==
    \A r1, r2 \in Refs :
      \A k \in {"map", "set"} :
        (BothHashed(k, r1, r2) /\ SameEntries(r1, r2)) => out[r1].str = out[r2].str

(***************************************************************************)
(* C10: hashing fails exactly when the identifier reaches a collection     *)
(* that holds itself; the error is raised on a collection that holds       *)
(* itself and names its kind (array, Map, Set, object).  A collection held *)
(* several times without holding itself serializes without error.          *)
(***************************************************************************)
C10_FailsOnlyOnCycles ==
    \A r \in Refs :
      Hashed(r) =>
        /\ out[r].err <=> ReachesCycle(r)
        /\ out[r].err =>
             /\ out[r].at \in Closure({r})
             /\ OnCycle(out[r].at)
             /\ out[r].kind = MessageWord[KindOf(out[r].at)]

\* p = [q] and q = Map {p -> 1}: hashing p fails on the array, hashing q on the Map
C10_Witness ==
    /\ KindOf("p") = "array" /\ heap["p"].items = <<"q">>
    /\ KindOf("q") = "map" /\ heap["q"].items = <<<<"p", "n1">>>>
    /\ Hashed("p") /\ out["p"].err /\ out["p"].kind = "array" /\ out["p"].at = "p"
    /\ Hashed("q") /\ out["q"].err /\ out["q"].kind = "Map" /\ out["q"].at = "q"

(***************************************************************************)
(* Observations shared by the claims about the scheduling of flushes.      *)
(***************************************************************************)
\* the step is a call of notify (from main or from inside a listener)
NotifyCalled == notifyCount' = notifyCount + 1

\* the step starts a queued flush callback
FlushRuns == microtasks' = microtasks - 1

(***************************************************************************)
(* C11: at most one flush is queued; a flush is queued exactly when        *)
(* pendingFlush is set; a value is pending only while a flush is           *)
(* scheduled.  So a flush callback that starts always finds a pending      *)
(* value, and pendingFlush is only raised by notify and only lowered by    *)
(* the start of the flush callback.                                        *)
(***************************************************************************)
C11_State ==
    /\ microtasks \in {0, 1}
    /\ pendingFlush <=> microtasks = 1
    /\ hasQueuedValue => pendingFlush

C11_OneFlushScheduled ==
    /\ []C11_State
    /\ [][ /\ FlushRuns => (hasQueuedValue /\ pendingFlush /\ ~pendingFlush')
           /\ (~pendingFlush /\ pendingFlush') => NotifyCalled
           /\ (pendingFlush /\ ~pendingFlush') => FlushRuns ]_vars

\* a listener called notify during a delivery: one flush is queued while the
\* running one is still delivering
C11_Witness ==
    /\ phase = "inListener"
    /\ pendingFlush
    /\ microtasks = 1
    /\ hasQueuedValue
    /\ batch # <<>>

\* notify calls whose value, or a value notified after it, a flush has taken
Taken == notifyCount - Len(batch)

\* the latest delivering flush is over and has called every listener that was
\* registered when it started, in order, with the value it took
FlushDelivered ==
    /\ phase = "idle"
    /\ hist # <<>>
    /\ calls = [i \in 1..Len(regAtFlush) |-> <<regAtFlush[i], Last(hist)>>]

(***************************************************************************)
(* C12: when queued flushes are eventually run, the k-th notify is         *)
(* eventually followed by a completed flush that took its value or a later *)
(* one and delivered it to the listeners registered when it started; a     *)
(* pending value is eventually consumed and a scheduled flush eventually   *)
(* runs.  The flush that starts takes the latest notified value and the    *)
(* listeners registered at that moment.                                    *)
(***************************************************************************)
C12_EveryNotifyFlushed ==
    /\ \A k \in 1..MaxNotify : (notifyCount >= k) ~> (Taken >= k /\ FlushDelivered)
    /\ hasQueuedValue ~> ~hasQueuedValue
    /\ pendingFlush ~> ~pendingFlush
    /\ [][FlushRuns => (batch # <<>> /\ payload' = Last(batch)
                        /\ snapshot' = listeners)]_vars

\* two notify calls separated by a flush, each delivered by its own flush to a
\* registered listener
C12_Witness ==
    /\ notifyCount = 2
    /\ Taken = 2
    /\ Len(hist) = 2
    /\ regAtFlush # <<>>
    /\ FlushDelivered

\* the step is a call of notify made by a listener during a delivery
NotifyFromListener == NotifyCalled /\ phase = "inListener"

(***************************************************************************)
(* C13: a notify(w) called by a listener while a flush delivers v invokes  *)
(* no listener and leaves the running flush as it is: the listeners called *)
(* afterwards by that flush receive v.  w stays buffered with exactly one  *)
(* flush queued, a further flush eventually starts, and the flush that     *)
(* starts takes the buffered value (w or a value notified after it).       *)
(***************************************************************************)
C13_State ==
    phase = "inListener" =>
      /\ payload = Last(hist)
      /\ \A i \in 1..Len(calls) : calls[i] = <<regAtFlush[i], payload>>
      /\ batch # <<>> =>
           (microtasks = 1 /\ hasQueuedValue /\ lastValue = Last(batch))

C13_NotifyDuringFlush ==
    /\ []C13_State
    /\ [][ /\ NotifyFromListener =>
                (calls' = calls /\ phase' = phase /\ idx' = idx /\ snapshot' = snapshot
                 /\ payload' = payload /\ microtasks' = 1)
           /\ (phase = "inListener" /\ phase' = "inListener") =>
                (payload' = payload /\ snapshot' = snapshot)
           /\ (FlushRuns /\ batch # <<>>) =>
                (payload' = lastValue /\ lastValue = Last(batch)) ]_vars
    /\ \A n \in 0..MaxNotify :
         (phase = "inListener" /\ batch # <<>> /\ FlushNo = n) ~> (FlushNo > n)

\* during the flush of one value another value was notified, and the second
\* listener of that flush was still called with the first value
C13_Witness ==
    /\ phase = "inListener"
    /\ Len(calls) = 2
    /\ batch # <<>>
    /\ Last(batch) # payload
    /\ calls[2][2] = payload
    /\ microtasks = 1

====
